---------------------------- MODULE Spec2Model ----------------------------
(***************************************************************************)
(* Leftys backend (FastAPI + MongoDB): inventory consumption and impact    *)
(* metrics, posting creation and discovery, and the Auth0 token verifier.  *)
(*                                                                         *)
(* Every request handler is a coroutine that suspends at each database     *)
(* call, so a handler is modelled as one action per database call and a    *)
(* request's position (pc) and local variables are part of the state.      *)
(*                                                                         *)
(* Numbers.  Quantities are floats in the code; here they are small        *)
(* integers.  Weights, CO2 and money are fixed-point integers in units of  *)
(* 1e-8 (lb, kg, USD), which represents every conversion factor of         *)
(* calculate_food_waste_impact exactly.                                    *)
(***************************************************************************)
EXTENDS Integers, Sequences, FiniteSets, TLC

(***************************************************************************)
(* Bounds of the model.                                                    *)
(***************************************************************************)
MaxQty == 2
MinQty == 1
MaxRequests == 3
MaxTime == 3
MaxPostings == 5
MaxScans == 3
MaxSeeded == 52
MaxUtc == 3
FoodCap == 700000000

Accounts == {"alice", "bob"}
Requests == {1, 2}

\* Caller-supplied float fields (quantity, quantity_delta) are unvalidated:
\* negative values are accepted by the payload models.
Quantities == (0 - MinQty)..MaxQty

NoTime == -1
NoDelta == "None"
NoItem == [status |-> "absent"]

Units == {"g", "kg", "oz", "lb", "ml", "L", "pieces"}
Keywords == {"yogurt", "avocado", "spinach"}
\* An item name is modelled by the set of keywords its lower-cased text contains.
Names == {{}, {"yogurt"}, {"avocado"}, {"spinach"}, {"yogurt", "avocado"}}
\* The name is read only for base_unit "pieces".
UnitNames == {<<u, {}>> : u \in Units} \cup {<<"pieces", n>> : n \in Names}

VARIABLES
    now,          \* the clock read by datetime.utcnow()
    inventory,    \* inventory_items collection: item id -> document or NoItem
    nextItem,     \* number of inventory item ids handed out so far
    metrics,      \* user_metrics collection, in insertion order
    req,          \* per request slot: position and local variables
    response,     \* status code of the request that returned last
    started,      \* number of inventory requests received so far
    postings,     \* postings collection, in insertion order
    nextPosting,  \* number of posting ids handed out so far
    preq,         \* per request slot: position and locals of a posting request
    returned,     \* body of the response sent by the step just taken
    jwks,         \* Auth0Verifier._jwks: the cached key set
    jwks_loaded_at, \* Auth0Verifier._jwks_loaded_at
    provider,     \* the key set the identity provider serves at the moment
    call,         \* the verify call in progress or just finished
    scans,        \* scans collection, in insertion order
    sreq,         \* the scan upload in progress: position and locals
    accounts,     \* accounts collection, in insertion order
    areq,         \* per request slot: position and locals of get_current_user
    claims,       \* claims collection: claim id -> document or NoClaim
    utc           \* the clock of the claims, in milliseconds

postingVars == <<postings, nextPosting, preq, returned>>

authVars == <<jwks, jwks_loaded_at, provider, call>>

scanVars == <<scans, sreq>>

accountVars == <<accounts, areq>>

claimVars == <<claims, utc>>

vars == <<now, inventory, nextItem, metrics, req, response, started, postingVars,
          authVars, scanVars, accountVars, claimVars>>

\* inventory item ids (ObjectIds, never reused); requests on different items touch
\* different documents, so one item carries every case of the handlers
ItemIds == {1}

Abs(x) == IF x < 0 THEN 0 - x ELSE x

Max(a, b) == IF a >= b THEN a ELSE b

(***************************************************************************)
(* utils.calculate_food_waste_impact                                       *)
(***************************************************************************)
Scale == 100000000
LbPerKg == 220462000
LbPerG == 220462
OzPerLb == 16
LbPerYogurt == 35000000
LbPerAvocado == 40000000
LbPerSpinach == 30000000
LbPerPiece == 25000000
KgPerLbMicro == 453592
Million == 1000000
MoneyPerLb == 3

\* weight_lb for a quantity of the item's base unit (units of 1e-8 lb)
WeightLb(base_unit, name, q) ==
    CASE base_unit = "lb" -> q * Scale
      [] base_unit = "kg" -> q * LbPerKg
      [] base_unit = "g" -> q * LbPerG
      [] base_unit = "oz" -> (q * Scale) \div OzPerLb
      [] base_unit = "pieces" ->
            IF "yogurt" \in name THEN q * LbPerYogurt
            ELSE IF "avocado" \in name THEN q * LbPerAvocado
            ELSE IF "spinach" \in name THEN q * LbPerSpinach
            ELSE q * LbPerPiece
      [] OTHER -> 0

\* floor(w * 0.453592), computed in two limbs to stay within 32-bit integers
TimesKgPerLb(w) ==
    LET hi == w \div Million
        lo == w % Million
        a == lo * (KgPerLbMicro \div 1000)
        b == lo * (KgPerLbMicro % 1000)
    IN  hi * KgPerLbMicro + ((a + (b \div 1000)) \div 1000)

\* floor(x * 3.3), as 3x + floor(3x / 10)
TimesCo2PerKg(x) == (3 * x) + ((3 * x) \div 10)

Co2Prevented(weight_lb) == TimesCo2PerKg(TimesKgPerLb(weight_lb))

CalculateFoodWasteImpact(item, reason, quantity_delta) ==
    LET quantity_to_calculate ==
            IF quantity_delta # NoDelta THEN quantity_delta ELSE item.quantity
        weight_lb == WeightLb(item.base_unit, item.name, quantity_to_calculate)
    IN  [food_saved_lbs |-> IF reason = "used" THEN weight_lb ELSE 0,
         co2_prevented_kg |-> IF reason = "used" THEN Co2Prevented(weight_lb) ELSE 0,
         money_saved_usd |-> IF reason = "used" THEN weight_lb * MoneyPerLb ELSE 0]

NoImpact == [food_saved_lbs |-> 0, co2_prevented_kg |-> 0, money_saved_usd |-> 0]


(***************************************************************************)
(* Documents and request slots                                             *)
(***************************************************************************)
NoMetrics == [owner_id |-> "none"]

\* models.UserMetrics with its field defaults
NewMetrics(owner_id) ==
    [owner_id |-> owner_id, co2_emissions_prevented_kg |-> 0, food_saved_lbs |-> 0,
     money_saved_usd |-> 0, items_rescued |-> 0]

IdleReq ==
    [pc |-> "idle", kind |-> "none", caller |-> "none", item_id |-> 0,
     quantity_delta |-> 0, reason |-> "none", impact |-> NoImpact,
     remaining_read |-> 0, updated_status |-> "none", metrics_read |-> NoMetrics]

\* the request has returned: its locals are dropped, the response code is kept
Respond(r, code) == req' = [req EXCEPT ![r] = IdleReq] /\ response' = code

\* the request suspends at its next database call
Continue(r, locals) == req' = [req EXCEPT ![r] = locals] /\ response' = response

\* a new request takes the lowest free slot
CanStart(r) ==
    /\ started < MaxRequests
    /\ req[r].pc = "idle"
    /\ \A q \in Requests : q < r => req[q].pc # "idle"

RECURSIVE SumFood(_)
SumFood(rows) ==
    IF rows = <<>> THEN 0 ELSE Abs(Head(rows).food_saved_lbs) + SumFood(Tail(rows))

RECURSIVE SumPending(_)
SumPending(rs) ==
    IF rs = {} THEN 0
    ELSE LET r == CHOOSE x \in rs : TRUE
         IN  Abs(req[r].impact.food_saved_lbs) + SumPending(rs \ {r})

\* model bound: the fixed-point counters stay within 32-bit integers
Headroom(credit) == SumFood(metrics) + SumPending(Requests) + Abs(credit) <= FoodCap

(***************************************************************************)
(* InventoryRepository                                                     *)
(***************************************************************************)
\* find_by_id
FindById(item_id) == IF item_id \in ItemIds THEN inventory[item_id] ELSE NoItem

Found(item) == item # NoItem

\* ids a request may name: the items' ids, a well-formed id no item has (2) and a
\* string that is no ObjectId (0)
RequestIds == ItemIds \cup {0, 2}

\* ObjectId(item_id) does not raise
WellFormed(item_id) == item_id # 0

\* mutant: the ownership check is missing
NotFound(item, caller) == ~Found(item)

\* the handlers' "if not item or item.owner_id != account.id"
NotFoundOrNotOwned(item, caller) == ~Found(item) \/ item.owner_id # caller

\* create_item: remaining_quantity starts equal to quantity
CreateItemDoc(owner_id, base_unit, name, quantity) ==
    [owner_id |-> owner_id, name |-> name, base_unit |-> base_unit,
     quantity |-> quantity, remaining_quantity |-> quantity, status |-> "active",
     used_at |-> NoTime, discarded_at |-> NoTime]

CreateItem(owner_id, base_unit, name, quantity) ==
    /\ nextItem + 1 \in ItemIds
    /\ nextItem' = nextItem + 1
    /\ inventory' = [inventory EXCEPT ![nextItem + 1] =
                        CreateItemDoc(owner_id, base_unit, name, quantity)]
    /\ UNCHANGED <<postingVars, authVars, scanVars, accountVars, claimVars, now, metrics, req, response, started>>

\* mutant: setting the quantity makes the item active again
UpdateQuantityDocReactivating(item, new_quantity) ==
    [item EXCEPT !.quantity = new_quantity, !.remaining_quantity = new_quantity,
                 !.status = "active", !.used_at = NoTime, !.discarded_at = NoTime]

\* update_quantity: the $set document applied to a stored item
UpdateQuantityDoc(item, new_quantity) ==
    [item EXCEPT !.quantity = new_quantity, !.remaining_quantity = new_quantity]

\* mutant: the clamp at zero is missing
NewRemainingUnclamped(remaining_quantity, quantity_delta) ==
    remaining_quantity - quantity_delta

\* consume_item: new_remaining = max(0, item.remaining_quantity - quantity_delta)
NewRemaining(remaining_quantity, quantity_delta) ==
    Max(0, remaining_quantity - quantity_delta)

\* mutant: the consume keeps the item's total quantity
ConsumeItemDocKeepingTotal(item, new_remaining, reason, t) ==
    LET base == [item EXCEPT !.remaining_quantity = new_remaining]
    IN  IF new_remaining <= 0
        THEN IF reason = "used"
             THEN [base EXCEPT !.status = "consumed", !.used_at = t]
             ELSE [base EXCEPT !.status = "discarded", !.discarded_at = t]
        ELSE base

\* consume_item: the $set document applied to a stored item
ConsumeItemDoc(item, new_remaining, reason, t) ==
    LET base == [item EXCEPT !.remaining_quantity = new_remaining,
                             !.quantity = new_remaining]
    IN  IF new_remaining <= 0
        THEN IF reason = "used"
             THEN [base EXCEPT !.status = "consumed", !.used_at = t]
             ELSE [base EXCEPT !.status = "discarded", !.discarded_at = t]
        ELSE base

(***************************************************************************)
(* UserMetricsRepository                                                   *)
(***************************************************************************)
MatchingRows(owner_id) == {k \in 1..Len(metrics) : metrics[k].owner_id = owner_id}

\* find_one({"owner_id": owner_id}): the first matching document
FindMetrics(owner_id) ==
    IF MatchingRows(owner_id) = {} THEN NoMetrics
    ELSE metrics[CHOOSE k \in MatchingRows(owner_id) :
                    \A j \in MatchingRows(owner_id) : k <= j]

\* update_metrics: the $set document, computed from the row read earlier
UpdateMetricsDoc(row, impact, items_rescued_added) ==
    [row EXCEPT !.co2_emissions_prevented_kg = row.co2_emissions_prevented_kg + impact.co2_prevented_kg,
                !.food_saved_lbs = row.food_saved_lbs + impact.food_saved_lbs,
                !.money_saved_usd = row.money_saved_usd + impact.money_saved_usd,
                !.items_rescued = row.items_rescued + items_rescued_added]

\* update_one({"owner_id": owner_id}, {"$set": ...}): the first matching document;
\* the $set names the counters only, so the stored _id and owner_id stay
SetMetrics(owner_id, doc) ==
    IF MatchingRows(owner_id) = {} THEN metrics
    ELSE LET k == CHOOSE i \in MatchingRows(owner_id) :
                     \A j \in MatchingRows(owner_id) : i <= j
         IN  [metrics EXCEPT ![k] = [doc EXCEPT !.owner_id = owner_id]]


(***************************************************************************)
(* Inventory request handlers (main.py), one action per database call      *)
(***************************************************************************)
\* PATCH /inventory/{id}: find_by_id and the ownership check
UpdateQuantityStart(r, caller, item_id, quantity) ==
    /\ CanStart(r)
    /\ LET item == FindById(item_id)
       IN  IF ~WellFormed(item_id)
           THEN Respond(r, 400)
           ELSE IF NotFoundOrNotOwned(item, caller)
           THEN Respond(r, 404)
           ELSE Continue(r, [IdleReq EXCEPT !.pc = "update_quantity",
                    !.kind = "set_quantity", !.caller = caller,
                    !.item_id = item_id, !.quantity_delta = quantity])
    /\ started' = started + 1
    /\ UNCHANGED <<postingVars, authVars, scanVars, accountVars, claimVars, now, inventory, nextItem, metrics>>

\* PATCH /inventory/{id}: update_quantity; modified_count = 0 when the item is gone
UpdateQuantityWrite(r) ==
    /\ req[r].pc = "update_quantity"
    /\ LET item == FindById(req[r].item_id)
       IN  IF Found(item)
           THEN /\ inventory' = [inventory EXCEPT ![req[r].item_id] =
                                    UpdateQuantityDoc(item, req[r].quantity_delta)]
                /\ Respond(r, 200)
           ELSE /\ inventory' = inventory
                /\ Respond(r, 400)
    /\ UNCHANGED <<postingVars, authVars, scanVars, accountVars, claimVars, now, nextItem, metrics, started>>

\* POST /inventory/{id}/consume: the impact is computed from the item as read by
\* the handler; quantity_delta is not passed on
ImpactOfConsume(item, reason, quantity_delta) ==
    CalculateFoodWasteImpact(item, reason, NoDelta)

\* POST /inventory/{id}/consume: find_by_id, the ownership check, the impact
ConsumeStart(r, caller, item_id, quantity_delta, reason) ==
    /\ CanStart(r)
    /\ LET item == FindById(item_id)
       IN  IF ~WellFormed(item_id)
           THEN Respond(r, 400)
           ELSE IF NotFoundOrNotOwned(item, caller)
           THEN Respond(r, 404)
           ELSE /\ item.remaining_quantity - quantity_delta <= MaxQty
                /\ reason = "used" =>
                      Headroom(WeightLb(item.base_unit, item.name, item.quantity))
                /\ Continue(r, [IdleReq EXCEPT !.pc = "consume_find",
                        !.kind = "consume", !.caller = caller, !.item_id = item_id,
                        !.quantity_delta = quantity_delta, !.reason = reason,
                        !.impact = ImpactOfConsume(item, reason, quantity_delta)])
    /\ started' = started + 1
    /\ UNCHANGED <<postingVars, authVars, scanVars, accountVars, claimVars, now, inventory, nextItem, metrics>>

\* consume_item: find_by_id
ConsumeFind(r) ==
    /\ req[r].pc = "consume_find"
    /\ LET item == FindById(req[r].item_id)
       IN  IF ~Found(item)
           THEN Respond(r, 400)
           ELSE Continue(r, [req[r] EXCEPT !.pc = "consume_update",
                                           !.remaining_read = item.remaining_quantity])
    /\ UNCHANGED <<postingVars, authVars, scanVars, accountVars, claimVars, now, inventory, nextItem, metrics, started>>

\* mutant: the update subtracts from the value stored at the time of the write
RemainingAtWrite(r, item) == item.remaining_quantity

\* consume_item: item.remaining_quantity of the item its find_by_id returned
RemainingForUpdate(r, item) == req[r].remaining_read

\* consume_item: update_one with the $set computed from the item read before
ConsumeUpdate(r) ==
    /\ req[r].pc = "consume_update"
    /\ LET item == FindById(req[r].item_id)
           new_remaining == NewRemaining(RemainingForUpdate(r, item),
                                         req[r].quantity_delta)
       IN  IF Found(item)
           THEN /\ inventory' = [inventory EXCEPT ![req[r].item_id] =
                                    ConsumeItemDoc(item, new_remaining, req[r].reason, now)]
                /\ Continue(r, [req[r] EXCEPT !.pc = "consume_reread"])
           ELSE /\ inventory' = inventory
                /\ Respond(r, 400)
    /\ UNCHANGED <<postingVars, authVars, scanVars, accountVars, claimVars, now, nextItem, metrics, started>>

\* mutant: metrics are credited whatever the reason
CreditsMetricsAlways(reason) == TRUE

\* consume_inventory_item: "if payload.reason == 'used'"
CreditsMetrics(reason) == reason = "used"

\* consume_item: find_by_id of the updated item; then the handler's branch on reason
ConsumeReread(r) ==
    /\ req[r].pc = "consume_reread"
    /\ LET item == FindById(req[r].item_id)
       IN  IF ~Found(item)
           THEN Respond(r, 400)
           ELSE IF CreditsMetrics(req[r].reason)
           THEN Continue(r, [req[r] EXCEPT !.pc = "metrics_find",
                                           !.updated_status = item.status])
           ELSE Respond(r, 200)
    /\ UNCHANGED <<postingVars, authVars, scanVars, accountVars, claimVars, now, inventory, nextItem, metrics, started>>

\* GET /impact: get_or_create_metrics for the caller
ImpactStart(r, caller) ==
    /\ CanStart(r)
    /\ Continue(r, [IdleReq EXCEPT !.pc = "metrics_find", !.kind = "impact",
                                   !.caller = caller])
    /\ started' = started + 1
    /\ UNCHANGED <<postingVars, authVars, scanVars, accountVars, claimVars, now, inventory, nextItem, metrics>>

\* get_or_create_metrics: find_one
MetricsFind(r) ==
    /\ req[r].pc = "metrics_find"
    /\ LET row == FindMetrics(req[r].caller)
       IN  IF row = NoMetrics
           THEN Continue(r, [req[r] EXCEPT !.pc = "metrics_insert"])
           ELSE IF req[r].kind = "impact"
           THEN Respond(r, 200)
           ELSE Continue(r, [req[r] EXCEPT !.pc = "metrics_update",
                                           !.metrics_read = row])
    /\ UNCHANGED <<postingVars, authVars, scanVars, accountVars, claimVars, now, inventory, nextItem, metrics, started>>

\* get_or_create_metrics: insert_one of a fresh row
MetricsInsert(r) ==
    /\ req[r].pc = "metrics_insert"
    /\ metrics' = Append(metrics, NewMetrics(req[r].caller))
    /\ IF req[r].kind = "impact"
       THEN Respond(r, 200)
       ELSE Continue(r, [req[r] EXCEPT !.pc = "metrics_update",
                                       !.metrics_read = NewMetrics(req[r].caller)])
    /\ UNCHANGED <<postingVars, authVars, scanVars, accountVars, claimVars, now, inventory, nextItem, started>>

\* update_metrics: update_one with counters computed from the row read before,
\* then the closing get_or_create_metrics (the row exists: a read)
MetricsUpdate(r) ==
    /\ req[r].pc = "metrics_update"
    /\ metrics' = SetMetrics(req[r].caller,
                    UpdateMetricsDoc(req[r].metrics_read, req[r].impact,
                        IF req[r].updated_status = "consumed" THEN 1 ELSE 0))
    /\ Respond(r, 200)
    /\ UNCHANGED <<postingVars, authVars, scanVars, accountVars, claimVars, now, inventory, nextItem, started>>

\* DELETE /inventory/{id}: find_by_id and the ownership check
DeleteStart(r, caller, item_id) ==
    /\ CanStart(r)
    /\ LET item == FindById(item_id)
       IN  IF ~WellFormed(item_id)
           THEN Respond(r, 400)
           ELSE IF NotFoundOrNotOwned(item, caller)
           THEN Respond(r, 404)
           ELSE Continue(r, [IdleReq EXCEPT !.pc = "delete_item", !.kind = "delete",
                                            !.caller = caller, !.item_id = item_id])
    /\ started' = started + 1
    /\ UNCHANGED <<postingVars, authVars, scanVars, accountVars, claimVars, now, inventory, nextItem, metrics>>

\* DELETE /inventory/{id}: delete_one; deleted_count = 0 when the item is gone
DeleteWrite(r) ==
    /\ req[r].pc = "delete_item"
    /\ IF Found(FindById(req[r].item_id))
       THEN /\ inventory' = [inventory EXCEPT ![req[r].item_id] = NoItem]
            /\ Respond(r, 200)
       ELSE /\ inventory' = inventory
            /\ Respond(r, 400)
    /\ UNCHANGED <<postingVars, authVars, scanVars, accountVars, claimVars, now, nextItem, metrics, started>>

(***************************************************************************)
(* Postings: PostingRepository, utils.posting_db_to_api and the handlers    *)
(* of GET /postings and POST /postings                                     *)
(***************************************************************************)
inventoryVars == <<inventory, nextItem, metrics, req, started, authVars, scanVars, accountVars, claimVars>>

MaxOpenPostings == 3
PickupStartHours == 1
PickupEndHours == 3
NearbyLimit == 50
NoDistance == -1
NoAccount == "None"
NoCoordinates == [coordinates |-> "None"]
NoPlace == <<>>
NoCoordinate == -1
NoResponse == [op |-> "none"]

\* caller positions <<lat, lng>> on a grid of one-kilometre steps
Places == {<<0, 0>>, <<0, 1>>}
\* radius_km
Radii == {0, 1}

\* the lat and lng query parameters, each of which may be missing
Lats == {NoCoordinate, 0}
Lngs == {NoCoordinate, 0, 1}
\* positions in the collection when postings are listed: two postings show a record
\* with and a record without coordinates in one response
Listed == {1, 2}

IdlePReq == [pc |-> "idle", caller |-> NoAccount, place |-> NoPlace, t |-> 0]

\* a new posting request takes the lowest free slot
CanStartPosting(r) ==
    /\ preq[r].pc = "idle"
    /\ \A q \in Requests : q < r => preq[q].pc # "idle"

InFlight == Cardinality({q \in Requests : preq[q].pc # "idle"})

\* stands for haversine_distance and for the store's $near metric
Distance(p, q) == Abs(p[1] - q[1]) + Abs(p[2] - q[2])

\* mutant: the posting expires when its pickup window opens
NewPostingExpiringEarly(id, owner_id, place, t) ==
    [id |-> id, owner_id |-> owner_id, status |-> "open", claimed_by |-> NoAccount,
     location |-> <<place[2], place[1]>>, created_at |-> t,
     pickup_start |-> t + PickupStartHours, pickup_end |-> t + PickupEndHours,
     expires_at |-> t + PickupStartHours]

\* the document built by the create_posting handler at time t for caller at <<lat, lng>>
NewPosting(id, owner_id, place, t) ==
    [id |-> id, owner_id |-> owner_id, status |-> "open", claimed_by |-> NoAccount,
     location |-> <<place[2], place[1]>>, created_at |-> t,
     pickup_start |-> t + PickupStartHours, pickup_end |-> t + PickupEndHours,
     expires_at |-> t + PickupEndHours]

\* mutant: postings past their expiry are not counted
CountOpenUnexpiredByOwner(owner_id) ==
    Cardinality({k \in 1..Len(postings) :
                    /\ postings[k].owner_id = owner_id
                    /\ postings[k].status = "open"
                    /\ postings[k].expires_at > now})

\* count_open_by_owner
CountOpenByOwner(owner_id) ==
    Cardinality({k \in 1..Len(postings) :
                    postings[k].owner_id = owner_id /\ postings[k].status = "open"})

\* mutant: the query does not filter on the status
NearbyAnyStatus(doc, place, radius_km) ==
    /\ Distance(<<doc.location[2], doc.location[1]>>, place) <= radius_km
    /\ doc.expires_at > now

\* find_nearby: the filter of the query
Nearby(doc, place, radius_km) ==
    /\ Distance(<<doc.location[2], doc.location[1]>>, place) <= radius_km
    /\ doc.status = "open"
    /\ doc.expires_at > now

\* find_nearby: the matching documents, nearest first
RECURSIVE NearestFirst(_, _, _)
NearestFirst(place, radius_km, d) ==
    IF d > radius_km THEN <<>>
    ELSE SelectSeq(postings, LAMBDA doc :
              Nearby(doc, place, radius_km)
              /\ Distance(<<doc.location[2], doc.location[1]>>, place) = d)
         \o NearestFirst(place, radius_km, d + 1)

\* find_nearby: at most `limit` documents
FindNearby(place, radius_km) ==
    LET docs == NearestFirst(place, radius_km, 0)
    IN  IF Len(docs) > NearbyLimit THEN SubSeq(docs, 1, NearbyLimit) ELSE docs

\* get_postings: "if lat is not None and lng is not None"
UserPlace(lat, lng) ==
    IF lat # NoCoordinate /\ lng # NoCoordinate THEN <<lat, lng>> ELSE NoPlace

\* mutant: exact coordinates go to the owner only
ShowsCoordinatesOwnerOnly(is_owner, is_claimer) == is_owner

\* posting_db_to_api: "if is_owner or is_claimer"
ShowsCoordinates(is_owner, is_claimer) == is_owner \/ is_claimer

\* posting_db_to_api
PostingDbToApi(posting_db, user_place, is_owner, is_claimer) ==
    LET distance_km ==
            IF user_place # NoPlace
            THEN Distance(user_place, <<posting_db.location[2], posting_db.location[1]>>)
            ELSE NoDistance
    IN  [id |-> posting_db.id,
         status |-> IF posting_db.status # "picked_up" THEN posting_db.status
                    ELSE "reserved",
         distanceKm |-> IF distance_km # NoDistance /\ distance_km # 0
                        THEN distance_km ELSE NoDistance,
         coordinates |-> IF ShowsCoordinates(is_owner, is_claimer)
                         THEN [latitude |-> posting_db.location[2],
                               longitude |-> posting_db.location[1]]
                         ELSE NoCoordinates]

\* get_postings: the records returned to `caller`
PostingsFor(caller, place, radius_km) ==
    LET postings_db == IF place # NoPlace THEN FindNearby(place, radius_km) ELSE <<>>
    IN  [k \in 1..Len(postings_db) |->
            PostingDbToApi(postings_db[k], place,
                           postings_db[k].owner_id = caller,
                           postings_db[k].claimed_by = caller)]

\* GET /postings
GetPostings(caller, lat, lng, radius_km) ==
    /\ returned' = [op |-> "get_postings", requester |-> caller,
                    postings |-> PostingsFor(caller, UserPlace(lat, lng), radius_km)]
    /\ response' = 200
    /\ UNCHANGED <<now, inventoryVars, postings, nextPosting, preq>>

\* POST /postings: get_or_create_account; the model creates at most N postings
CreatePostingStart(r, caller, place, N) ==
    /\ CanStartPosting(r)
    /\ nextPosting + InFlight < N
    /\ preq' = [preq EXCEPT ![r] = [IdlePReq EXCEPT !.pc = "create_count",
                                        !.caller = caller, !.place = place]]
    /\ returned' = NoResponse
    /\ UNCHANGED <<now, inventoryVars, response, postings, nextPosting>>

\* mutant: the limit is not checked
NoPostingLimit(open_count) == FALSE

\* mutant: the limit is compared with > instead of >=
AtPostingLimitLate(open_count) == open_count > MaxOpenPostings

\* create_posting: "if open_count >= 3"
AtPostingLimit(open_count) == open_count >= MaxOpenPostings

\* POST /postings: count_open_by_owner and the limit; the handler reads the clock
CreatePostingCount(r) ==
    /\ preq[r].pc = "create_count"
    /\ IF AtPostingLimit(CountOpenByOwner(preq[r].caller))
       THEN /\ preq' = [preq EXCEPT ![r] = IdlePReq]
            /\ response' = 400
            /\ returned' = [op |-> "create_posting", requester |-> preq[r].caller,
                            postings |-> <<>>]
       ELSE /\ preq' = [preq EXCEPT ![r] = [preq[r] EXCEPT !.pc = "create_insert",
                                                           !.t = now]]
            /\ response' = response
            /\ returned' = NoResponse
    /\ UNCHANGED <<now, inventoryVars, postings, nextPosting>>

\* POST /postings: PostingRepository.create_posting and the response
CreatePostingInsert(r) ==
    /\ preq[r].pc = "create_insert"
    /\ LET created_posting == NewPosting(nextPosting + 1, preq[r].caller,
                                         preq[r].place, preq[r].t)
       IN  /\ postings' = Append(postings, created_posting)
           /\ returned' = [op |-> "create_posting", requester |-> preq[r].caller,
                           postings |-> <<PostingDbToApi(created_posting, preq[r].place,
                                                         TRUE, FALSE)>>]
    /\ nextPosting' = nextPosting + 1
    /\ preq' = [preq EXCEPT ![r] = IdlePReq]
    /\ response' = 200
    /\ UNCHANGED <<now, inventoryVars>>

\* PostingRepository.update_status: the $set carries claimed_by only when one is given
UpdateStatus(k, status, claimed_by) ==
    /\ k \in 1..Len(postings)
    /\ postings' = [postings EXCEPT ![k] =
                      IF claimed_by # NoAccount
                      THEN [@ EXCEPT !.status = status, !.claimed_by = claimed_by]
                      ELSE [@ EXCEPT !.status = status]]
    /\ returned' = NoResponse
    /\ UNCHANGED <<now, inventoryVars, response, nextPosting, preq>>

\* the store's TTL index on expires_at (expireAfterSeconds = 0) removes a posting
TtlExpire(k) ==
    /\ k \in 1..Len(postings)
    /\ postings[k].expires_at <= now
    /\ postings' = SubSeq(postings, 1, k - 1) \o SubSeq(postings, k + 1, Len(postings))
    /\ returned' = NoResponse
    /\ UNCHANGED <<now, inventoryVars, response, nextPosting, preq>>

\* time passes, in hours
Tick ==
    /\ now < MaxTime
    /\ now' = now + 1
    /\ returned' = NoResponse
    /\ UNCHANGED <<inventoryVars, response, postings, nextPosting, preq>>

(***************************************************************************)
(* auth.Auth0Verifier.  verify is synchronous code: one call is in progress *)
(* at a time, and what changes between its steps is the identity provider   *)
(* (key rotation, outages), never the verifier's own state.                 *)
(***************************************************************************)
JwksTtlHours == 1

Kids == {"k1", "k2"}

Key(kid, usable) == [kid |-> kid, usable |-> usable]

\* the "keys" lists the provider may serve; a key entry is unusable when RSAKey
\* cannot be built from it
KeyLists ==
    {<<>>, <<Key("k1", TRUE)>>, <<Key("k2", TRUE)>>, <<Key("k1", FALSE)>>,
     <<Key("k1", TRUE), Key("k2", TRUE)>>, <<Key("k1", FALSE), Key("k1", TRUE)>>}

NoJwks == [loaded |-> FALSE]
NoKey == [found |-> FALSE]

\* a token: its header parses or not, names a kid or not; claims_ok says whether
\* jwt.decode accepts signature, expiry, audience and issuer
Tokens ==
    {[header |-> h, kid |-> "None", claims_ok |-> FALSE] : h \in {"malformed", "no_kid"}}
    \cup {[header |-> "ok", kid |-> k, claims_ok |-> c] : k \in Kids, c \in BOOLEAN}

IdleCall ==
    [pc |-> "idle", token |-> [header |-> "none"], missed |-> FALSE, fetches |-> 0,
     forced |-> 0, lookups |-> 0, key |-> NoKey, outcome |-> "none"]

\* "for key in keys: if key.get('kid') == kid: return key"
LookupKey(keys, kid) ==
    LET hits == {i \in 1..Len(keys) : keys[i].kid = kid}
    IN  IF hits = {} THEN NoKey
        ELSE keys[CHOOSE i \in hits : \A j \in hits : i <= j]

\* mutant: a loaded key set is served whatever its age
CacheFreshForever == jwks # NoJwks

\* _load_jwks: the cached set is served
CacheFresh ==
    /\ jwks # NoJwks
    /\ now - jwks_loaded_at < JwksTtlHours

\* _load_jwks: requests.get / raise_for_status / json() raise; nothing catches it
FetchFailure == "error"

\* mutant: the key is not looked up again after the refresh
LookupAfterRefreshSkipped(keys, kid) == NoKey

\* _get_signing_key: the lookup in the refreshed set
LookupAfterRefresh(keys, kid) == LookupKey(keys, kid)

\* verify: RSAKey(key) and jwt.decode; only JWTError becomes HTTP 401
Decode(c, key) ==
    [c EXCEPT !.pc = "done", !.key = key,
              !.outcome = IF ~key.usable THEN "error"
                          ELSE IF ~c.token.claims_ok THEN "401"
                          ELSE "principal"]

Fail(c, outcome) == [c EXCEPT !.pc = "done", !.outcome = outcome]

\* _get_signing_key after the first load: the lookup, then the forced refresh
AfterFirstLoad(c, keys) ==
    LET key == LookupKey(keys, c.token.kid)
    IN  IF key # NoKey THEN Decode([c EXCEPT !.lookups = 1], key)
        ELSE [c EXCEPT !.pc = "refresh", !.lookups = 1, !.missed = TRUE]

\* verify(token): the header, and the key set when the cache serves it
StartedCall(token) ==
    LET c == [IdleCall EXCEPT !.token = token]
    IN  IF token.header = "malformed" THEN Fail(c, "401")
        ELSE IF token.header = "no_kid" THEN Fail(c, "401")
        ELSE IF CacheFresh THEN AfterFirstLoad(c, jwks.keys)
        ELSE [c EXCEPT !.pc = "load"]

\* a verify call begins
VerifyStart(token) ==
    /\ call.pc \in {"idle", "done"}
    /\ call' = StartedCall(token)
    /\ UNCHANGED <<now, inventory, nextItem, metrics, req, response, started,
                   postingVars, scanVars, accountVars, claimVars, jwks, jwks_loaded_at, provider>>

\* _load_jwks(): the fetch, failing or storing what the provider serves
LoadJwks(ok) ==
    /\ call.pc = "load"
    /\ LET c == [call EXCEPT !.fetches = @ + 1]
       IN  IF ok
           THEN /\ jwks' = [keys |-> provider]
                /\ jwks_loaded_at' = now
                /\ call' = AfterFirstLoad(c, provider)
           ELSE /\ UNCHANGED <<jwks, jwks_loaded_at>>
                /\ call' = Fail(c, FetchFailure)
    /\ UNCHANGED <<now, inventory, nextItem, metrics, req, response, started,
                   postingVars, scanVars, accountVars, claimVars, provider>>

\* _load_jwks(force=True) and the second lookup
RefreshJwks(ok) ==
    /\ call.pc = "refresh"
    /\ LET c == [call EXCEPT !.fetches = @ + 1, !.forced = @ + 1]
       IN  IF ok
           THEN /\ jwks' = [keys |-> provider]
                /\ jwks_loaded_at' = now
                /\ call' = LET key == LookupAfterRefresh(provider, c.token.kid)
                               d == [c EXCEPT !.lookups = 2]
                           IN  IF key # NoKey THEN Decode(d, key) ELSE Fail(d, "401")
           ELSE /\ UNCHANGED <<jwks, jwks_loaded_at>>
                /\ call' = Fail(c, FetchFailure)
    /\ UNCHANGED <<now, inventory, nextItem, metrics, req, response, started,
                   postingVars, scanVars, accountVars, claimVars, provider>>

\* the identity provider rotates its signing keys
RotateKeys(keys) ==
    /\ provider # keys
    /\ provider' = keys
    /\ UNCHANGED <<now, inventory, nextItem, metrics, req, response, started,
                   postingVars, scanVars, accountVars, claimVars, jwks, jwks_loaded_at, call>>

(***************************************************************************)
(* Scans: POST /scans                                                      *)
(***************************************************************************)
AllowedContentTypes == {"image/jpeg", "image/png", "image/webp"}

\* content types of uploads; "None" is a part sent without a content type
ContentTypes == AllowedContentTypes \cup {"image/gif", "IMAGE/PNG", "None"}

IdleSReq == [pc |-> "idle", caller |-> "None", content_type |-> "None"]

\* mutant: every content type is let through
AllowedAny(content_type) == TRUE

\* upload_scan: "image.content_type not in allowed" negated
Allowed(content_type) == content_type \in AllowedContentTypes

\* the ScanRecordDB built by upload_scan
NewScan(owner_id, content_type) ==
    [owner_id |-> owner_id, title |-> "Uploaded item", mime_type |-> content_type]

\* POST /scans: get_or_create_account
UploadScanStart(caller, content_type) ==
    /\ sreq.pc = "idle"
    /\ sreq' = [pc |-> "upload", caller |-> caller, content_type |-> content_type]
    /\ UNCHANGED <<now, inventory, nextItem, metrics, req, response, started,
                   postingVars, authVars, accountVars, claimVars, scans>>

\* POST /scans: the content-type check, then ScanRepository.create_scan
UploadScanWrite ==
    /\ sreq.pc = "upload"
    /\ IF ~Allowed(sreq.content_type)
       THEN /\ response' = 400
            /\ scans' = scans
       ELSE /\ Len(scans) < MaxScans
            /\ response' = 200
            /\ scans' = Append(scans, NewScan(sreq.caller, sreq.content_type))
    /\ sreq' = [IdleSReq EXCEPT !.pc = "done", !.caller = sreq.caller,
                                !.content_type = sreq.content_type]
    /\ UNCHANGED <<now, inventory, nextItem, metrics, req, started,
                   postingVars, authVars, accountVars, claimVars>>

\* the response has gone out
UploadScanReturn ==
    /\ sreq.pc = "done"
    /\ sreq' = IdleSReq
    /\ UNCHANGED <<now, inventory, nextItem, metrics, req, response, started,
                   postingVars, authVars, accountVars, claimVars, scans>>

(***************************************************************************)
(* Accounts: get_current_user and get_or_create_account                    *)
(***************************************************************************)
\* subject ids as character sequences: two that agree on their first eight
\* characters and one that differs from them at the first
Subjects == {<<1, 1, 1, 1, 1, 1, 1, 1, 1>>, <<1, 1, 1, 1, 1, 1, 1, 1, 2>>, <<2>>}

\* the email claim; a missing and an empty one are both falsy
Emails == {<<>>, <<7>>}

PhonePrefixLen == 8

\* sub[:8]
Prefix(sub) ==
    SubSeq(sub, 1, IF Len(sub) < PhonePrefixLen THEN Len(sub) ELSE PhonePrefixLen)

\* phone = auth0_user.email or f"user_{auth0_user.sub[:8]}"
Phone(sub, email) ==
    IF email # <<>> THEN [tag |-> "", text |-> email]
    ELSE [tag |-> "user_", text |-> Prefix(sub)]

\* phone="" of get_or_create_account
NoPhone == [tag |-> "", text |-> <<>>]

NewAccount(sub, phone) == [auth0_id |-> sub, phone |-> phone]

NoAccountDoc == [found |-> FALSE]

\* AccountRepository.find_by_auth0_id
FindByAuth0Id(sub) ==
    LET hits == {k \in 1..Len(accounts) : accounts[k].auth0_id = sub}
    IN  IF hits = {} THEN NoAccountDoc
        ELSE accounts[CHOOSE k \in hits : \A j \in hits : k <= j]

\* the unique indexes of the accounts collection on phone and on auth0_id
DuplicateKey(account) ==
    \E k \in 1..Len(accounts) :
        \/ accounts[k].auth0_id = account.auth0_id
        \/ accounts[k].phone = account.phone

\* AccountRepository.create_account: insert_one under the unique indexes
CanInsert(account) == ~DuplicateKey(account)

\* what the bearer scheme hands to get_current_user: nothing, an empty token or
\* a token
NoCredentials == [header |-> "absent", kid |-> "None", claims_ok |-> FALSE]
EmptyCredentials == [header |-> "empty", kid |-> "None", claims_ok |-> FALSE]
Credentials == Tokens \cup {NoCredentials, EmptyCredentials}

\* mutant: the check of the credentials is missing
MissingCredentialsIgnored(credentials) == FALSE

\* "credentials is None or not credentials.credentials"
MissingCredentials(credentials) == credentials.header \in {"absent", "empty"}

IdleAReq == [pc |-> "idle", sub |-> <<>>, email |-> <<>>]

\* a request takes the lowest free slot; verify is synchronous code, so no two
\* requests are inside it at once
CanStartAccount(r) ==
    /\ areq[r].pc = "idle"
    /\ \A q \in Requests : q < r => areq[q].pc # "idle"
    /\ \A q \in Requests : areq[q].pc # "verify"
    /\ call.pc \in {"idle", "done"}

\* get_current_user: the credentials check, then verifier.verify begins; sub and
\* email are the claims the token carries
GetCurrentUserStart(r, credentials, sub, email) ==
    /\ CanStartAccount(r)
    /\ IF MissingCredentials(credentials)
       THEN /\ response' = 401
            /\ UNCHANGED <<areq, call>>
       ELSE /\ areq' = [areq EXCEPT ![r] = [pc |-> "verify", sub |-> sub,
                                            email |-> email]]
            /\ call' = StartedCall(credentials)
            /\ UNCHANGED response
    /\ UNCHANGED <<now, inventory, nextItem, metrics, req, started, postingVars,
                   scanVars, claimVars, jwks, jwks_loaded_at, provider, accounts>>

\* get_current_user: verifier.verify has returned the principal or raised
GetCurrentUserVerified(r) ==
    /\ areq[r].pc = "verify"
    /\ call.pc = "done"
    /\ IF call.outcome = "principal"
       THEN /\ areq' = [areq EXCEPT ![r].pc = "find"]
            /\ UNCHANGED response
       ELSE /\ areq' = [areq EXCEPT ![r] = IdleAReq]
            /\ response' = IF call.outcome = "401" THEN 401 ELSE 500
    /\ UNCHANGED <<now, inventory, nextItem, metrics, req, started, postingVars,
                   scanVars, claimVars, authVars, accounts>>

\* get_current_user: find_by_auth0_id
GetCurrentUserFind(r) ==
    /\ areq[r].pc = "find"
    /\ areq' = [areq EXCEPT ![r].pc =
                   IF FindByAuth0Id(areq[r].sub) # NoAccountDoc
                   THEN "get_or_create" ELSE "insert"]
    /\ UNCHANGED <<now, inventory, nextItem, metrics, req, response, started,
                   postingVars, scanVars, claimVars, authVars, accounts>>

\* get_current_user: create_account; a duplicate key error is not caught
GetCurrentUserInsert(r) ==
    /\ areq[r].pc = "insert"
    /\ LET account == NewAccount(areq[r].sub, Phone(areq[r].sub, areq[r].email))
       IN  IF CanInsert(account)
           THEN /\ accounts' = Append(accounts, account)
                /\ areq' = [areq EXCEPT ![r].pc = "get_or_create"]
                /\ UNCHANGED response
           ELSE /\ accounts' = accounts
                /\ areq' = [areq EXCEPT ![r] = IdleAReq]
                /\ response' = 500
    /\ UNCHANGED <<now, inventory, nextItem, metrics, req, started, postingVars,
                   scanVars, claimVars, authVars>>

\* get_or_create_account of the handler, and the handler's answer; accounts are
\* never deleted, so after get_current_user the account is found
GetOrCreateAccount(r) ==
    /\ areq[r].pc = "get_or_create"
    /\ LET account == NewAccount(areq[r].sub, NoPhone)
       IN  IF FindByAuth0Id(areq[r].sub) # NoAccountDoc
           THEN /\ accounts' = accounts
                /\ response' = 200
           ELSE IF CanInsert(account)
           THEN /\ accounts' = Append(accounts, account)
                /\ response' = 200
           ELSE /\ accounts' = accounts
                /\ response' = 500
    /\ areq' = [areq EXCEPT ![r] = IdleAReq]
    /\ UNCHANGED <<now, inventory, nextItem, metrics, req, started, postingVars,
                   scanVars, claimVars, authVars>>

(***************************************************************************)
(* The inventory service                                                   *)
(***************************************************************************)
(***************************************************************************)
(* Claims: ClaimRepository                                                 *)
(***************************************************************************)
ClaimIds == {1, 2}

outsideClaims ==
    <<now, inventory, nextItem, metrics, req, response, started, postingVars,
      authVars, scanVars, accountVars>>

ClaimStatuses == {"pending", "accepted", "expired", "rejected"}

ClaimExpiryMinutes == 45

MsPerMinute == 60 * 1000

\* the milliseconds that may pass between two readings of the clock inside one
\* call
Elapsed == {0, 1}

NoClaim == [status |-> "absent"]

\* Claim(...): a pending claim without accepted_at and expires_at
NewClaim == [status |-> "pending", accepted_at |-> NoTime, expires_at |-> NoTime]

\* create_claim
CreateClaim(c) ==
    /\ claims[c] = NoClaim
    /\ claims' = [claims EXCEPT ![c] = NewClaim]
    /\ UNCHANGED <<outsideClaims, utc>>

\* update_status: the $set document applied to a stored claim; accepted_at and
\* expires_at come from two readings of the clock
ClaimStatusDoc(claim, status, first_now, second_now) ==
    IF status = "accepted"
    THEN [claim EXCEPT !.status = status, !.accepted_at = first_now,
                       !.expires_at = second_now + ClaimExpiryMinutes * MsPerMinute]
    ELSE [claim EXCEPT !.status = status]

\* ClaimRepository.update_status; `elapsed` passes between its clock readings
UpdateClaimStatus(c, status, elapsed) ==
    /\ claims[c] # NoClaim
    /\ utc + elapsed <= MaxUtc
    /\ claims' = [claims EXCEPT ![c] = ClaimStatusDoc(@, status, utc, utc + elapsed)]
    /\ utc' = utc + elapsed
    /\ UNCHANGED outsideClaims

\* a millisecond passes
UtcTick ==
    /\ utc < MaxUtc
    /\ utc' = utc + 1
    /\ UNCHANGED <<outsideClaims, claims>>

InitOutsidePostings ==
    /\ now = 0
    /\ inventory = [i \in ItemIds |-> NoItem]
    /\ nextItem = 0
    /\ metrics = <<>>
    /\ req = [r \in Requests |-> IdleReq]
    /\ response = 0
    /\ started = 0
    /\ preq = [r \in Requests |-> IdlePReq]
    /\ returned = NoResponse
    /\ jwks = NoJwks
    /\ jwks_loaded_at = 0
    /\ provider = <<Key("k1", TRUE)>>
    /\ call = IdleCall
    /\ scans = <<>>
    /\ sreq = IdleSReq
    /\ accounts = <<>>
    /\ areq = [r \in Requests |-> IdleAReq]
    /\ claims = [c \in ClaimIds |-> NoClaim]
    /\ utc = 0

\* the state after start-up, the collections empty
Init ==
    /\ InitOutsidePostings
    /\ postings = <<>>
    /\ nextPosting = 0

\* the owners of the postings of a filled store, MaxOpenPostings postings each
Crowd ==
    <<"alice", "bob", "carol", "dave", "erin", "frank", "grace", "heidi", "ivan",
      "judy", "kim", "leo", "mia", "nick", "olga", "pat", "quin", "rosa", "sam">>

\* the k-th posting of a filled store, created at start-up at one of the places
SeededPosting(k) ==
    NewPosting(k, Crowd[((k - 1) \div MaxOpenPostings) + 1], <<0, k % 2>>, 0)

\* the sizes of a filled store: empty, small, and around the query's limit
SeededSizes == {0, 2, MaxSeeded - 2, MaxSeeded - 1, MaxSeeded}

\* a store holding up to MaxSeeded open postings when the clock starts
ListingInit ==
    /\ InitOutsidePostings
    /\ \E n \in SeededSizes : postings = [k \in 1..n |-> SeededPosting(k)]
    /\ nextPosting = Len(postings)

\* the requests of slots RS on items whose unit and name are drawn from UN
InventoryNext(RS, UN) ==
    \/ \E a \in Accounts, un \in UN, q \in Quantities :
            CreateItem(a, un[1], un[2], q)
    \/ \E r \in RS, a \in Accounts, i \in RequestIds, q \in Quantities :
            UpdateQuantityStart(r, a, i, q)
    \/ \E r \in RS : UpdateQuantityWrite(r)
    \/ \E r \in RS, a \in Accounts, i \in RequestIds, d \in Quantities,
          reason \in {"used", "discarded"} : ConsumeStart(r, a, i, d, reason)
    \/ \E r \in RS : ConsumeFind(r)
    \/ \E r \in RS : ConsumeUpdate(r)
    \/ \E r \in RS : ConsumeReread(r)
    \/ \E r \in RS, a \in Accounts : ImpactStart(r, a)
    \/ \E r \in RS : MetricsFind(r)
    \/ \E r \in RS : MetricsInsert(r)
    \/ \E r \in RS : MetricsUpdate(r)
    \/ \E r \in RS, a \in Accounts, i \in RequestIds : DeleteStart(r, a, i)
    \/ \E r \in RS : DeleteWrite(r)

\* requests handled one at a time, items of every unit
SeqNext == InventoryNext({1}, UnitNames)

InventorySeqSpec == Init /\ [][SeqNext]_vars

\* requests overlapping at their database calls
ConcNext == InventoryNext(Requests, {<<"g", {}>>, <<"lb", {}>>})

InventorySpec == Init /\ [][ConcNext]_vars

\* two consume requests, one per slot, on an item measured in grams
RaceNext ==
    \/ \E a \in Accounts, q \in Quantities : CreateItem(a, "g", {}, q)
    \/ \E r \in Requests, a \in Accounts, i \in ItemIds, d \in Quantities,
          reason \in {"used", "discarded"} :
            started < Cardinality(Requests) /\ ConsumeStart(r, a, i, d, reason)
    \/ \E r \in Requests : ConsumeFind(r)
    \/ \E r \in Requests : ConsumeUpdate(r)
    \/ \E r \in Requests : ConsumeReread(r)
    \/ \E r \in Requests : MetricsFind(r)
    \/ \E r \in Requests : MetricsInsert(r)
    \/ \E r \in Requests : MetricsUpdate(r)

ConsumeRaceSpec == Init /\ [][RaceNext]_vars

(***************************************************************************)
(* The posting service                                                     *)
(***************************************************************************)
\* create-posting requests overlapping at their database calls
PostingNext ==
    \/ \E r \in Requests, a \in Accounts :
            CreatePostingStart(r, a, <<0, 0>>, MaxPostings)
    \/ \E r \in Requests : CreatePostingCount(r)
    \/ \E r \in Requests : CreatePostingInsert(r)

PostingSpec == Init /\ [][PostingNext]_vars

\* postings created at different places and times, claimed through update_status,
\* listed by GET /postings and removed by the store's TTL index
DiscoveryNext ==
    \/ \E a \in Accounts, p \in Places : CreatePostingStart(1, a, p, Cardinality(Listed))
    \/ CreatePostingCount(1)
    \/ CreatePostingInsert(1)
    \/ \E k \in Listed, status \in {"open", "reserved"},
          claimed_by \in Accounts \cup {NoAccount} : UpdateStatus(k, status, claimed_by)
    \/ \E a \in Accounts, lat \in Lats, lng \in Lngs, radius_km \in Radii :
            GetPostings(a, lat, lng, radius_km)
    \/ \E k \in Listed : TtlExpire(k)
    \/ Tick

DiscoverySpec == Init /\ [][DiscoveryNext]_vars

\* the postings whose status changes in a filled store: the first and the last
Touched == {1, Len(postings)}

\* queries on a filled store while postings are reserved, reopened and expire
ListingNext ==
    \/ \E a \in Accounts, lat \in Lats, lng \in Lngs, radius_km \in Radii :
            GetPostings(a, lat, lng, radius_km)
    \/ \E k \in Touched, status \in {"open", "reserved"},
          claimed_by \in Accounts \cup {NoAccount} : UpdateStatus(k, status, claimed_by)
    \/ Tick

ListingSpec == ListingInit /\ [][ListingNext]_vars

\* create requests handled one at a time while postings expire and the store's
\* TTL index removes expired ones
ExpiryNext ==
    \/ \E a \in Accounts : CreatePostingStart(1, a, <<0, 0>>, MaxPostings)
    \/ CreatePostingCount(1)
    \/ CreatePostingInsert(1)
    \/ \E k \in 1..MaxPostings : TtlExpire(k)
    \/ Tick

ExpirySpec == Init /\ [][ExpiryNext]_vars

(***************************************************************************)
(* The token verifier                                                      *)
(***************************************************************************)
AuthNext ==
    \/ \E token \in Tokens : VerifyStart(token)
    \/ \E ok \in BOOLEAN : LoadJwks(ok)
    \/ \E ok \in BOOLEAN : RefreshJwks(ok)
    \/ \E keys \in KeyLists : RotateKeys(keys)
    \/ Tick

AuthSpec == Init /\ [][AuthNext]_vars

(***************************************************************************)
(* The scan service                                                        *)
(***************************************************************************)
ScanNext ==
    \/ \E a \in Accounts, content_type \in ContentTypes : UploadScanStart(a, content_type)
    \/ UploadScanWrite
    \/ UploadScanReturn

ScanSpec == Init /\ [][ScanNext]_vars

\* authenticated requests up to the handler's get_or_create_account
AccountNext ==
    \/ \E r \in Requests, credentials \in Credentials, sub \in Subjects,
          email \in Emails : GetCurrentUserStart(r, credentials, sub, email)
    \/ \E ok \in BOOLEAN : LoadJwks(ok)
    \/ \E ok \in BOOLEAN : RefreshJwks(ok)
    \/ \E r \in Requests : GetCurrentUserVerified(r)
    \/ \E r \in Requests : GetCurrentUserFind(r)
    \/ \E r \in Requests : GetCurrentUserInsert(r)
    \/ \E r \in Requests : GetOrCreateAccount(r)

AccountSpec == Init /\ [][AccountNext]_vars

\* claims are created and their status is set while the clock runs
ClaimNext ==
    \/ \E c \in ClaimIds : CreateClaim(c)
    \/ \E c \in ClaimIds, status \in ClaimStatuses, elapsed \in Elapsed :
            UpdateClaimStatus(c, status, elapsed)
    \/ UtcTick

ClaimSpec == Init /\ [][ClaimNext]_vars


(***************************************************************************)
(* Properties of the inventory service                                     *)
(***************************************************************************)
\* the step in which request r's consume_item writes its $set to the item
ConsumeWrites(r) == req[r].pc = "consume_update" /\ req'[r].pc = "consume_reread"

\* the step in which request r's update_metrics writes the counters
MetricsWrites(r) == req[r].pc = "metrics_update" /\ req'[r].pc = "idle"

\* the first row of owner_id in a user_metrics collection
RowOf(rows, owner_id) ==
    LET ks == {k \in 1..Len(rows) : rows[k].owner_id = owner_id}
    IN  rows[CHOOSE k \in ks : \A j \in ks : k <= j]

\* C1: after a consume operation has written an item, whatever quantity_delta
\* and reason it carried, the stored item has 0 <= remaining_quantity <= quantity.
C1_RemainingWithinQuantity ==
    [][\A r \in Requests :
          ConsumeWrites(r) =>
             LET item == inventory'[req[r].item_id]
             IN  /\ 0 <= item.remaining_quantity
                 /\ item.remaining_quantity <= item.quantity]_vars

\* a consume whose delta exceeds what was left has written: the clamp applied
C1_Witness ==
    \E r \in Requests :
       /\ req[r].pc = "consume_reread"
       /\ req[r].quantity_delta > req[r].remaining_read
       /\ req[r].remaining_read > 0
       /\ inventory[req[r].item_id].remaining_quantity = 0

\* C2: a consume with quantity_delta >= remaining_quantity leaves the item
\* consumed (reason used) or discarded (reason discarded) with exactly one of
\* used_at / discarded_at set, whatever operations preceded it.
C2_TerminalSetsExactlyOneTimestamp ==
    [][\A r \in Requests :
          (/\ ConsumeWrites(r)
           /\ req[r].remaining_read >= 0
           /\ req[r].quantity_delta >= req[r].remaining_read) =>
             LET item == inventory'[req[r].item_id]
             IN  /\ item.status = IF req[r].reason = "used" THEN "consumed" ELSE "discarded"
                 /\ (item.used_at # NoTime) # (item.discarded_at # NoTime)]_vars

\* C3: a 'used' consume of delta d on an item of unit g with quantity q > d > 0
\* leaves remaining_quantity = q - d and status active, and credits the owner
\* with food_saved_lbs d x 0.00220462 and the CO2 of that weight.
C3_ImpactFromDelta ==
    [][\A r \in Requests :
          LET d == req[r].quantity_delta
              item == inventory[req[r].item_id]
              partial == /\ req[r].reason = "used"
                         /\ item.base_unit = "g"
                         /\ d > 0
          IN  /\ (ConsumeWrites(r) /\ partial /\ d < req[r].remaining_read) =>
                    /\ inventory'[req[r].item_id].remaining_quantity = req[r].remaining_read - d
                    /\ inventory'[req[r].item_id].status = item.status
              /\ (MetricsWrites(r) /\ partial /\ item.status = "active") =>
                    LET before == RowOf(metrics, req[r].caller)
                        after == RowOf(metrics', req[r].caller)
                    IN  /\ after.food_saved_lbs = before.food_saved_lbs + d * LbPerG
                        /\ after.co2_emissions_prevented_kg =
                              before.co2_emissions_prevented_kg + Co2Prevented(d * LbPerG)]_vars

\* C4: every cumulative counter of every user-metrics row is non-decreasing
\* over time, across any sequence and interleaving of 'used' consume requests
\* (stated here for requests whose computed impact is not negative).
C4_MetricsNonDecreasing ==
    [][(\A r \in Requests : req[r].impact.food_saved_lbs >= 0) =>
       \A k \in 1..Len(metrics) :
          /\ metrics'[k].co2_emissions_prevented_kg >= metrics[k].co2_emissions_prevented_kg
          /\ metrics'[k].food_saved_lbs >= metrics[k].food_saved_lbs
          /\ metrics'[k].money_saved_usd >= metrics[k].money_saved_usd
          /\ metrics'[k].items_rescued >= metrics[k].items_rescued]_vars

\* C5: a consume request writes remaining_quantity = quantity = max(0, read - delta)
\* whatever its reason, a discarded one sets only the discarded status and
\* timestamp where a used one sets the consumed status and used timestamp, and no
\* step of a discarded request changes the user_metrics collection.
C5_DiscardedLikeUsedWithoutMetrics ==
    [][\A r \in Requests :
          /\ ConsumeWrites(r) =>
                LET old == inventory[req[r].item_id]
                    new == inventory'[req[r].item_id]
                    left == req[r].remaining_read - req[r].quantity_delta
                    expected == IF left > 0 THEN left ELSE 0
                    used == req[r].reason = "used"
                IN  /\ new.remaining_quantity = expected
                    /\ new.quantity = expected
                    /\ new.status = IF expected > 0 THEN old.status
                                    ELSE IF used THEN "consumed" ELSE "discarded"
                    /\ new.used_at = IF expected <= 0 /\ used THEN now ELSE old.used_at
                    /\ new.discarded_at =
                          IF expected <= 0 /\ ~used THEN now ELSE old.discarded_at
          /\ (req'[r] # req[r] /\ "discarded" \in {req[r].reason, req'[r].reason}) =>
                metrics' = metrics]_vars

\* a discarded consume has emptied an item of an owner who has no metrics row
C5_Witness ==
    \E r \in Requests :
       /\ req[r].pc = "consume_reread"
       /\ req[r].reason = "discarded"
       /\ inventory[req[r].item_id].status = "discarded"
       /\ \A k \in 1..Len(metrics) : metrics[k].owner_id # req[r].caller

(***************************************************************************)
(* Properties of the posting service                                       *)
(***************************************************************************)
\* the stored posting with the given id
PostingById(id) == postings[CHOOSE k \in 1..Len(postings) : postings[k].id = id]

\* C6: every posting record of a response of GET /postings or POST /postings
\* carries the posting's coordinates if the requester is the posting's owner or
\* its claimed_by, and carries none for any other requester.
C6_CoordinatesForOwnerOrClaimant ==
    returned # NoResponse =>
       \A k \in 1..Len(returned.postings) :
          LET record == returned.postings[k]
              doc == PostingById(record.id)
          IN  IF returned.requester \in {doc.owner_id, doc.claimed_by}
              THEN record.coordinates = [latitude |-> doc.location[2],
                                         longitude |-> doc.location[1]]
              ELSE record.coordinates = NoCoordinates

\* one listing holds a posting the requester claimed but does not own, with its
\* coordinates, and a posting of somebody else, without
C6_Witness ==
    /\ returned # NoResponse
    /\ returned.op = "get_postings"
    /\ \E j, k \in 1..Len(returned.postings) :
          /\ PostingById(returned.postings[j].id).claimed_by = returned.requester
          /\ PostingById(returned.postings[j].id).owner_id # returned.requester
          /\ returned.postings[j].coordinates # NoCoordinates
          /\ returned.postings[k].coordinates = NoCoordinates

\* C7 as stated: no owner ever has more than 3 open postings.
C7_AtMostThreeOpen ==
    \A a \in Accounts : CountOpenByOwner(a) <= MaxOpenPostings

\* C7, amended: with at most n create-posting requests in flight at once, an owner
\* never has more than 3 + (n - 1) open postings.
C7_AtMostThreeOpenPlusOverlap ==
    \A a \in Accounts : CountOpenByOwner(a) <= MaxOpenPostings + Cardinality(Requests) - 1

\* two overlapping requests have taken an owner past the limit
C7_Witness ==
    \E a \in Accounts :
       /\ CountOpenByOwner(a) = MaxOpenPostings + 1
       /\ returned # NoResponse
       /\ returned.op = "create_posting"
       /\ returned.requester = a
       /\ response = 200

\* C8: a create-posting request whose count finds 3 or more open postings of the
\* caller ends with HTTP 400 and no insert: the postings collection is unchanged.
C8_RejectedAtLimit ==
    [][\A r \in Requests :
          (/\ preq[r].pc = "create_count"
           /\ preq'[r] # preq[r]
           /\ CountOpenByOwner(preq[r].caller) >= MaxOpenPostings) =>
             /\ response' = 400
             /\ preq'[r] = IdlePReq
             /\ postings' = postings
             /\ nextPosting' = nextPosting]_vars

\* a request has just been rejected while its caller had 3 open postings
C8_Witness ==
    /\ returned # NoResponse
    /\ returned.op = "create_posting"
    /\ returned.postings = <<>>
    /\ response = 400
    /\ CountOpenByOwner(returned.requester) >= MaxOpenPostings

C10_PrincipalOr401 ==
    call.pc = "done" => call.outcome \in {"principal", "401"}

\* C11: every posting that POST /postings created at time T has a pickup window
\* from T + 1h to T + 3h and expires at the end of that window, so expires_at is
\* never earlier than the end of the pickup window.
C11_DefaultPickupWindow ==
    \A k \in 1..Len(postings) :
       /\ postings[k].pickup_start = postings[k].created_at + PickupStartHours
       /\ postings[k].pickup_end = postings[k].created_at + PickupEndHours
       /\ postings[k].expires_at = postings[k].pickup_end
       /\ postings[k].expires_at >= postings[k].pickup_end

\* a posting built after the clock had moved is stored, and time has passed since
C11_Witness ==
    \E k \in 1..Len(postings) :
       /\ postings[k].created_at > 0
       /\ postings[k].expires_at = postings[k].created_at + PickupEndHours
       /\ now > postings[k].created_at

(***************************************************************************)
(* Properties of the scan service                                          *)
(***************************************************************************)
\* C12: an upload whose content type is not image/jpeg, image/png or image/webp
\* ends with HTTP 400 and leaves the scans collection unchanged; an upload with
\* one of these types adds exactly one scan record, owned by the caller.
C12_ScanContentType ==
    [][(sreq.pc = "upload" /\ sreq'.pc = "done") =>
          IF sreq.content_type \in {"image/jpeg", "image/png", "image/webp"}
          THEN /\ Len(scans') = Len(scans) + 1
               /\ SubSeq(scans', 1, Len(scans)) = scans
               /\ scans'[Len(scans')].owner_id = sreq.caller
               /\ response' = 200
          ELSE /\ scans' = scans
               /\ response' = 400]_vars

\* a gif upload has just been refused while the caller's earlier png scan is stored
C12_Witness ==
    /\ sreq.pc = "done"
    /\ sreq.content_type = "image/gif"
    /\ response = 400
    /\ \E k \in 1..Len(scans) :
          scans[k].owner_id = sreq.caller /\ scans[k].mime_type = "image/png"

(***************************************************************************)
(* Properties of the inventory handlers: refusals and direction of change  *)
(***************************************************************************)

\* the request names a well-formed id that no item has or whose item is another
\* account's
C13_Refused(caller, item_id) ==
    /\ WellFormed(item_id)
    /\ \/ ~Found(FindById(item_id))
       \/ FindById(item_id).owner_id # caller

\* C13: a set-quantity, consume or delete request on an item id that does not
\* exist or whose owner is not the caller's account is answered 404 and ends
\* there, with every inventory item and every user-metrics row as before
C13_NotFoundModifiesNothing ==
    [][\A r \in Requests, a \in Accounts, i \in RequestIds :
          ( /\ C13_Refused(a, i)
            /\ \/ \E q \in Quantities : UpdateQuantityStart(r, a, i, q)
               \/ \E d \in Quantities, reason \in {"used", "discarded"} :
                      ConsumeStart(r, a, i, d, reason)
               \/ DeleteStart(r, a, i) )
          => /\ response' = 404
             /\ req' = req
             /\ inventory' = inventory
             /\ metrics' = metrics]_vars

\* a request was answered 404 while the other account's item and a metrics row
\* are stored
C13_Witness ==
    /\ response = 404
    /\ \E i \in ItemIds : Found(inventory[i])
    /\ metrics # <<>>
    /\ \A r \in Requests : req[r] = IdleReq

\* C14: the step in which a consume operation writes an item never leaves the
\* item's remaining_quantity above what was stored before the step, whatever
\* quantity_delta the caller supplied
C14_ConsumeNeverRaisesRemaining ==
    [][\A r \in Requests :
          ConsumeWrites(r) =>
             inventory'[req[r].item_id].remaining_quantity
                <= inventory[req[r].item_id].remaining_quantity]_vars

\* C15: once an item's status is consumed or discarded, no step of a consume or
\* set-quantity operation changes its status
C15_TerminalStatusOneWay ==
    [][\A i \in ItemIds :
          (inventory[i].status \in {"consumed", "discarded"}
              /\ inventory'[i].status # "absent")
          => inventory'[i].status = inventory[i].status]_vars

(***************************************************************************)
(* Properties of the accounts                                              *)
(***************************************************************************)
\* the accounts stored for a subject id
AccountsOf(rows, sub) == {k \in 1..Len(rows) : rows[k].auth0_id = sub}

\* C16: when a request whose token was verified has gone through the account
\* creation of get_current_user, there is exactly one account for its subject
\* id, whatever the subject id and the email claim and whatever requests ran
\* before or alongside
C16_ExactlyOneAccountPerSubject ==
    [][\A r \in Requests :
          (areq[r].pc = "insert" /\ areq'[r].pc # "insert")
          => Cardinality(AccountsOf(accounts', areq[r].sub)) = 1]_vars

\* C20: a request without bearer credentials is answered 401 at once: no verify
\* call begins, no key set is fetched, the cached key set stays as it is and no
\* account is created
C20_NoCredentials401BeforeSideEffects ==
    [][\A r \in Requests, credentials \in {NoCredentials, EmptyCredentials},
          sub \in Subjects, email \in Emails :
          GetCurrentUserStart(r, credentials, sub, email)
          => /\ response' = 401
             /\ call' = call
             /\ jwks' = jwks
             /\ jwks_loaded_at' = jwks_loaded_at
             /\ accounts' = accounts
             /\ areq' = areq]_vars

\* a request without credentials was refused while the key set had never been
\* loaded and no account existed
C20_Witness ==
    /\ response = 401
    /\ call = IdleCall
    /\ jwks = NoJwks
    /\ accounts = <<>>

(***************************************************************************)
(* Properties of the stored rows                                           *)
(***************************************************************************)
\* C17: in every reachable state the user_metrics collection holds at most one
\* row per owner, also when the owner's first GET /impact and first used
\* consume overlap
C17_AtMostOneMetricsRowPerOwner ==
    \A a \in Accounts :
        Cardinality({k \in 1..Len(metrics) : metrics[k].owner_id = a}) <= 1

\* C18: a posting, once stored, is in the postings collection after every later
\* step; passing its expiry does not remove the record
C18_PostingNeverRemoved ==
    [][\A k \in 1..Len(postings) :
          \E j \in 1..Len(postings') : postings'[j].id = postings[k].id]_vars

QuantityWrites(r) ==
    /\ req[r].pc = "update_quantity"
    /\ req'[r].pc = "idle"
    /\ Found(inventory[req[r].item_id])

\* C21: the set-quantity operation stores the new value as both quantity and
\* remaining_quantity of the item and leaves its status, used_at and
\* discarded_at as they were, also for a consumed or discarded item
C21_SetQuantityWritesBothKeepsStatus ==
    [][\A r \in Requests :
          QuantityWrites(r) =>
             LET before == inventory[req[r].item_id]
                 after == inventory'[req[r].item_id]
             IN  /\ after.quantity = req[r].quantity_delta
                 /\ after.remaining_quantity = req[r].quantity_delta
                 /\ after.status = before.status
                 /\ after.used_at = before.used_at
                 /\ after.discarded_at = before.discarded_at]_vars

\* the second request on a consumed or discarded item set its quantity to the
\* largest value and the item kept its status
C21_Witness ==
    /\ started = 2
    /\ response = 200
    /\ \A r \in Requests : req[r].pc = "idle"
    /\ \E i \in ItemIds :
          /\ inventory[i].status \in {"consumed", "discarded"}
          /\ inventory[i].remaining_quantity = MaxQty
          /\ inventory[i].quantity = MaxQty

\* C22: a consume stores max(0, r - d) for the remaining_quantity r that its own
\* find_by_id returned, whatever was written to the item in between (last write
\* wins); when nothing was written in between, r is the stored value and the
\* result is the sequential one
C22_ConsumeWritesFromOwnRead ==
    [][\A r \in Requests :
          ConsumeWrites(r) =>
             inventory'[req[r].item_id].remaining_quantity
                = Max(0, req[r].remaining_read - req[r].quantity_delta)]_vars

\* two consumes of the same item have both read the same remaining_quantity and
\* both written, and what is stored is neither sequential result: one update
\* is lost
C22_Witness ==
    /\ req[1].pc = "consume_reread"
    /\ req[2].pc = "consume_reread"
    /\ req[1].item_id = req[2].item_id
    /\ req[1].remaining_read = req[2].remaining_read
    /\ req[1].quantity_delta > 0
    /\ req[2].quantity_delta > 0
    /\ LET rr == req[1].remaining_read
           d1 == req[1].quantity_delta
           d2 == req[2].quantity_delta
           stored == inventory[req[1].item_id].remaining_quantity
       IN  /\ stored \in {Max(0, rr - d1), Max(0, rr - d2)}
           /\ stored # Max(0, Max(0, rr - d1) - d2)
           /\ stored # Max(0, Max(0, rr - d2) - d1)

(***************************************************************************)
(* Properties of the key-set cache                                         *)
(***************************************************************************)
\* the step in which the non-forced _load_jwks of a verify call fetches
FirstLoadFetches == call.pc = "load" /\ call'.pc # "load"

\* the key set is loaded and younger than its time to live
C23_Fresh == jwks # NoJwks /\ now - jwks_loaded_at < JwksTtlHours

\* C23 as stated: a verify call on a fresh cache that holds the token's key id
\* fetches nothing and leaves the cache and its timestamp alone, and a non-forced
\* load on a cache of one hour or more fetches and replaces both the set and the
\* timestamp
C23_CachedOneHourAlwaysReplaced ==
    [][/\ \A token \in Tokens :
             ( /\ VerifyStart(token)
               /\ token.header = "ok"
               /\ C23_Fresh
               /\ LookupKey(jwks.keys, token.kid) # NoKey )
             => /\ call'.pc = "done"
                /\ call'.fetches = 0
                /\ jwks' = jwks
                /\ jwks_loaded_at' = jwks_loaded_at
       /\ \A token \in Tokens :
             (VerifyStart(token) /\ token.header = "ok" /\ ~C23_Fresh)
             => call'.pc = "load"
       /\ (FirstLoadFetches /\ jwks # NoJwks)
          => /\ now - jwks_loaded_at >= JwksTtlHours
             /\ call'.fetches = call.fetches + 1
             /\ jwks' = [keys |-> provider]
             /\ jwks_loaded_at' = now]_vars

\* C23, amended: the same, where the load on a cache of one hour or more
\* replaces the set and the timestamp when its fetch returns a key set and
\* leaves both as they were when the fetch fails
C23_CachedOneHour ==
    [][/\ \A token \in Tokens :
             ( /\ VerifyStart(token)
               /\ token.header = "ok"
               /\ C23_Fresh
               /\ LookupKey(jwks.keys, token.kid) # NoKey )
             => /\ call'.pc = "done"
                /\ call'.fetches = 0
                /\ jwks' = jwks
                /\ jwks_loaded_at' = jwks_loaded_at
       /\ \A token \in Tokens :
             (VerifyStart(token) /\ token.header = "ok" /\ ~C23_Fresh)
             => call'.pc = "load"
       /\ FirstLoadFetches
          => /\ ~C23_Fresh
             /\ call'.fetches = call.fetches + 1
             /\ \/ /\ jwks' = [keys |-> provider]
                   /\ jwks_loaded_at' = now
                \/ /\ call'.outcome = FetchFailure
                   /\ jwks' = jwks
                   /\ jwks_loaded_at' = jwks_loaded_at]_vars

\* a verify call found the loaded key set one hour old or older and is about to
\* fetch it again
C23_Witness ==
    /\ call.pc = "load"
    /\ jwks # NoJwks
    /\ now - jwks_loaded_at >= JwksTtlHours

\* C24: in every reachable state every stored inventory item has
\* remaining_quantity >= 0, whatever quantities the callers supplied
C24_RemainingNeverNegative ==
    \A i \in ItemIds :
        Found(inventory[i]) => inventory[i].remaining_quantity >= 0

(***************************************************************************)
(* Properties of the claims                                                *)
(***************************************************************************)
\* C25: setting a claim's status to accepted stores accepted_at and an
\* expires_at exactly 45 minutes after it; setting any other status leaves both
\* as they were
C25_AcceptedExpiresAfter45Minutes ==
    [][\A c \in ClaimIds, status \in ClaimStatuses, elapsed \in Elapsed :
          UpdateClaimStatus(c, status, elapsed)
          => IF status = "accepted"
             THEN /\ claims'[c].accepted_at = utc
                  /\ claims'[c].expires_at
                        = claims'[c].accepted_at + ClaimExpiryMinutes * MsPerMinute
             ELSE /\ claims'[c].accepted_at = claims[c].accepted_at
                  /\ claims'[c].expires_at = claims[c].expires_at]_vars

\* C26: in every state reached by create, set-quantity and consume operations
\* handled one at a time, each stored item's quantity equals its
\* remaining_quantity; a consume overwrites quantity with what remains
C26_QuantityEqualsRemaining ==
    \A i \in ItemIds :
        Found(inventory[i]) => inventory[i].quantity = inventory[i].remaining_quantity

\* a consume of part of an item has written: the stored quantity is what
\* remains, below the quantity the consume had read
C26_Witness ==
    \E r \in Requests :
       /\ req[r].pc = "consume_reread"
       /\ req[r].quantity_delta > 0
       /\ req[r].quantity_delta < req[r].remaining_read
       /\ inventory[req[r].item_id].quantity
             = req[r].remaining_read - req[r].quantity_delta
       /\ inventory[req[r].item_id].remaining_quantity
             = inventory[req[r].item_id].quantity

(***************************************************************************)
(* Properties of the credited impact                                       *)
(***************************************************************************)
\* the owner's items that have reached status consumed: used_at is set then and
\* never cleared
EverConsumed(owner_id) ==
    {i \in ItemIds : /\ Found(inventory[i])
                     /\ inventory[i].owner_id = owner_id
                     /\ inventory[i].used_at # NoTime}

\* no item has been deleted: every id handed out still has its item
NothingDeleted == Cardinality({i \in ItemIds : Found(inventory[i])}) = nextItem

\* C27: as long as no item was deleted, an owner's items_rescued is at most the
\* number of the owner's items that have reached status consumed
C27_RescuedAtMostOncePerItem ==
    NothingDeleted =>
       \A k \in 1..Len(metrics) :
          metrics[k].items_rescued <= Cardinality(EverConsumed(metrics[k].owner_id))

\* the food_saved_lbs credited to an owner, over the owner's rows
RECURSIVE FoodSavedOf(_, _)
FoodSavedOf(rows, owner_id) ==
    IF rows = <<>> THEN 0
    ELSE (IF Head(rows).owner_id = owner_id THEN Head(rows).food_saved_lbs ELSE 0)
         + FoodSavedOf(Tail(rows), owner_id)

\* C28: with one item per run, created with at most MaxQty grams and never set
\* to another quantity, the food_saved_lbs credited to its owner over all used
\* consumes never exceeds the weight of the quantity the item was created with,
\* hence never the weight of MaxQty grams
C28_CreditedAtMostCreatedWeight ==
    \A a \in Accounts : FoodSavedOf(metrics, a) <= WeightLb("g", {}, MaxQty)

(***************************************************************************)
(* Properties of the posting cap and of the distance shown                 *)
(***************************************************************************)
\* the owner's stored postings with status open, expired or not
OpenOf(owner_id) ==
    {k \in 1..Len(postings) :
        postings[k].owner_id = owner_id /\ postings[k].status = "open"}

\* C29: the check of a create-posting request rejects the request exactly when
\* 3 or more stored postings of the owner have status open, whether or not
\* their expires_at has passed; the passing of time changes no stored posting,
\* so an expired posting counts until its record is removed
C29_CapCountsStatusAlone ==
    [][/\ \A r \in Requests :
             (preq[r].pc = "create_count" /\ preq'[r] # preq[r])
             => IF Cardinality(OpenOf(preq[r].caller)) >= MaxOpenPostings
                THEN /\ response' = 400
                     /\ preq'[r] = IdlePReq
                     /\ postings' = postings
                ELSE /\ preq'[r].pc = "create_insert"
                     /\ postings' = postings
       /\ now' # now => postings' = postings]_vars

\* a request was rejected while every open posting of its owner, 3 or more, was
\* past its expiry and still stored
C29_Witness ==
    /\ returned # NoResponse
    /\ returned.op = "create_posting"
    /\ returned.postings = <<>>
    /\ response = 400
    /\ Cardinality(OpenOf(returned.requester)) >= MaxOpenPostings
    /\ \A k \in OpenOf(returned.requester) : postings[k].expires_at <= now

\* C30: every posting record of a response built with the caller's coordinates
\* carries a distanceKm, also a posting at the caller's own coordinates; a
\* response holds records only if coordinates were supplied
C30_DistanceAlwaysShown ==
    returned # NoResponse =>
       \A k \in 1..Len(returned.postings) :
          returned.postings[k].distanceKm # NoDistance

=============================================================================
